---- MODULE Spec2Model ----
(***************************************************************************)
(* The Streamlit leaderboard of strava_run_challenge: app.py and the pages *)
(* pages/current_leaderboard.py and pages/archive.py.  Every script run    *)
(* loads the sheet through an st.cache_data loader, aggregates it with     *)
(* groupby/sum, ranks it with sort_values and labels the ranks.            *)
(*                                                                         *)
(* Encoding.  A string is a sequence of one-character strings.  A cell of  *)
(* the sheet is a record [k, v]: k = "val" (v is the value), k = "text"    *)
(* (text that does not parse as a number or a date) or k = "nan" (blank).  *)
(* Runners and teams are the ranks of their names in string order (the     *)
(* order groupby sorts keys in): Team A..G are 1..7, the 21 roster names   *)
(* are 1..21 (Alan 1, Alfred 2, Angelo 3, Anurag 4, Arminder 5, Asim 6,    *)
(* Gladys 7, Ijaz 8, Jaskeat 9, John 10, Jonathan 11, Karebu 12, Luis 13,  *)
(* Matthew 14, Miho 15, Rishi 16, Siddhant 17, Siddharth 18, Sneha 19,     *)
(* Timothy 20, Yrral 21).  A raw distance is in thousandths of a km, a     *)
(* loaded distance in hundredths; a raw date is a timestamp in half-days,  *)
(* a loaded date a day number.  A period label is a number (a text label   *)
(* is its rank in string order, the order sorted() compares in); the label *)
(* 0 is the number zero, the one label that is falsy.                      *)
(*                                                                         *)
(* hist is a history variable: what the last script run did (whether its   *)
(* loader read the sheet, the loader's cache entry before the call) and    *)
(* what has happened to the cache since a refresh or a failed read.  The   *)
(* specifications of the caching properties record it; the others leave it *)
(* as it starts.                                                           *)
(***************************************************************************)
EXTENDS Integers, Sequences, FiniteSets, TLC

VARIABLES source, cache, view, hist

vars == <<source, cache, view, hist>>

\* Rows of a sheet in the loader family, in the aggregation family, in the
\* roster family and in the ranking family, and the length of the free archive
\* tokens.
MaxRows == 2
MaxAggRows == 2
MaxRosterRows == 3
MaxLong == 21
MaxTokLen == 2

\* Rows of a sheet in the caching family, in the no-data family and in the
\* period family.
MaxCacheRows == 1
MaxViewRows == 2
MaxPeriodRows == 3

-----------------------------------------------------------------------------
(* Strings *)

LowerToUpper ==
  [c \in {"a","b","c","d","e","f","g","h","i","j","k","l","m","n","o","p","q",
          "r","s","t","u","v","w","x","y","z"} |->
     CASE c = "a" -> "A" [] c = "b" -> "B" [] c = "c" -> "C" [] c = "d" -> "D"
       [] c = "e" -> "E" [] c = "f" -> "F" [] c = "g" -> "G" [] c = "h" -> "H"
       [] c = "i" -> "I" [] c = "j" -> "J" [] c = "k" -> "K" [] c = "l" -> "L"
       [] c = "m" -> "M" [] c = "n" -> "N" [] c = "o" -> "O" [] c = "p" -> "P"
       [] c = "q" -> "Q" [] c = "r" -> "R" [] c = "s" -> "S" [] c = "t" -> "T"
       [] c = "u" -> "U" [] c = "v" -> "V" [] c = "w" -> "W" [] c = "x" -> "X"
       [] c = "y" -> "Y" [] c = "z" -> "Z"]

Whitespace == {" ", "\t", "\n"}

\* str.upper()
upper(s) ==
  [i \in 1..Len(s) |-> IF s[i] \in DOMAIN LowerToUpper THEN LowerToUpper[s[i]] ELSE s[i]]

RECURSIVE lstrip(_)
lstrip(s) == IF s # <<>> /\ Head(s) \in Whitespace THEN lstrip(Tail(s)) ELSE s

RECURSIVE rstrip(_)
rstrip(s) ==
  IF s # <<>> /\ s[Len(s)] \in Whitespace THEN rstrip(SubSeq(s, 1, Len(s) - 1)) ELSE s

\* str.strip()
strip(s) == rstrip(lstrip(s))

DigitChar == <<"0", "1", "2", "3", "4", "5", "6", "7", "8", "9">>

\* str(n) of a natural number
RECURSIVE str(_)
str(n) ==
  IF n < 10 THEN <<DigitChar[n + 1]>>
  ELSE str(n \div 10) \o <<DigitChar[(n % 10) + 1]>>

-----------------------------------------------------------------------------
(* Cells and columns *)

Val(v) == [k |-> "val", v |-> v]
isna(cell) == cell.k = "nan"

\* Series.astype(str): a blank cell becomes the text nan
astype_str(cell) == IF isna(cell) THEN Val(<<"n", "a", "n">>) ELSE cell

\* a / b rounded to the nearest integer, half to even (a >= 0, b > 0)
round_div(a, b) ==
  LET q == a \div b
      r == a % b
  IN  IF 2 * r > b \/ (2 * r = b /\ q % 2 = 1) THEN q + 1 ELSE q

\* Series.round(2) of a distance: thousandths to hundredths
round2(v) == round_div(v, 10)

\* round(x, 1) and f"{x:.1f}" of a distance: hundredths to tenths
round1(v) == round_div(v, 10)

\* pd.to_numeric(errors='coerce').round(2) of one cell
to_numeric_coerce(cell) ==
  IF cell.k = "val" THEN Val(round2(cell.v)) ELSE [k |-> "nan", v |-> 0]

\* pd.to_datetime(errors='coerce').dt.date of one cell: the time of day is dropped
to_datetime_coerce(cell) ==
  IF cell.k = "val" THEN Val(cell.v \div 2) ELSE [k |-> "nan", v |-> 0]

\* pd.to_numeric / pd.to_datetime without errors='coerce' raise on such a cell
raises(cell) == cell.k = "text"

archived_values ==
  {<<"T", "R", "U", "E">>, <<"T">>, <<"1">>, <<"Y", "E", "S">>, <<"Y">>}

\* df['Archive'].astype(str).str.upper().str.strip() of one cell
normalize_archive(cell) == Val(strip(upper(astype_str(cell).v)))

-----------------------------------------------------------------------------
(* DataFrames: [cols, rows]; every row carries its index label idx *)

Columns == {"Runner", "Team", "Distance", "Date", "Period", "Archive"}

\* pd.DataFrame(): no columns, no rows
EmptyDataFrame == [cols |-> {}, rows |-> <<>>]

empty(df) == df.rows = <<>>

\* pd.DataFrame(conn.read()): the rows of the sheet, indexed by position
DataFrame(src) ==
  [cols |-> src.cols,
   rows |-> [i \in 1..Len(src.rows) |->
               [idx |-> i,
                Runner |-> src.rows[i].Runner, Team |-> src.rows[i].Team,
                Distance |-> src.rows[i].Distance, Date |-> src.rows[i].Date,
                Period |-> src.rows[i].Period, Archive |-> src.rows[i].Archive]]]

\* df.dropna(): a row with a blank cell in any column of the frame is dropped
dropna(df) ==
  LET complete(r) == \A c \in df.cols : ~isna(r[c])
  IN  [df EXCEPT !.rows = SelectSeq(@, complete)]

\* the two coercions of the pages' loaders, each guarded by its column
clean(df) ==
  [df EXCEPT !.rows =
     [i \in 1..Len(@) |->
        [@[i] EXCEPT
           !.Distance = IF "Distance" \in df.cols THEN to_numeric_coerce(@) ELSE @,
           !.Date = IF "Date" \in df.cols THEN to_datetime_coerce(@) ELSE @]]]

\* df['Archive'] = df['Archive'].astype(str).str.upper().str.strip()
with_normalized_archive(df) ==
  [df EXCEPT !.rows = [i \in 1..Len(@) |-> [@[i] EXCEPT !.Archive = normalize_archive(@)]]]

\* df[~df['Archive'].isin(archived_values)]
drop_archived(df) ==
  LET current(r) == r.Archive.v \notin archived_values
  IN  [df EXCEPT !.rows = SelectSeq(@, current)]

\* df[df['Archive'].isin(archived_values)]
keep_archived(df) ==
  LET archived(r) == r.Archive.v \in archived_values
  IN  [df EXCEPT !.rows = SelectSeq(@, archived)]

-----------------------------------------------------------------------------
(* The three cached loaders.  A result is [raised, error, df]: raised when *)
(* the exception leaves the loader, error when st.error was shown.         *)

\* pages/current_leaderboard.py load_data
load_data(src) ==
  IF ~src.up
    THEN [raised |-> FALSE, error |-> TRUE, df |-> EmptyDataFrame]
    ELSE LET cleaned == clean(DataFrame(src))
             kept == IF "Archive" \in cleaned.cols
                       THEN drop_archived(with_normalized_archive(cleaned))
                       ELSE cleaned
         IN  [raised |-> FALSE, error |-> FALSE, df |-> dropna(kept)]

\* pages/archive.py load_archived_data
load_archived_data(src) ==
  IF ~src.up
    THEN [raised |-> FALSE, error |-> TRUE, df |-> EmptyDataFrame]
    ELSE LET cleaned == clean(DataFrame(src))
             kept == IF "Archive" \in cleaned.cols
                       THEN keep_archived(with_normalized_archive(cleaned))
                       ELSE cleaned
         IN  [raised |-> FALSE, error |-> FALSE, df |-> dropna(kept)]

\* app.py load_data: no try, no errors='coerce', no Archive filter, no dropna
app_load_data(src) ==
  IF ~src.up \/ \E i \in 1..Len(src.rows) :
                  raises(src.rows[i].Distance) \/ raises(src.rows[i].Date)
    THEN [raised |-> TRUE, error |-> FALSE, df |-> EmptyDataFrame]
    ELSE LET data == DataFrame(src)
         IN  [raised |-> FALSE, error |-> FALSE,
              df |-> [data EXCEPT !.rows =
                        [i \in 1..Len(@) |->
                           [@[i] EXCEPT !.Distance = to_numeric_coerce(@),
                                        !.Date = to_datetime_coerce(@)]]]]

-----------------------------------------------------------------------------
(* Aggregation: groupby(by)['Distance'].sum() as a frame of [key, Distance] *)

\* the group key of a row: the values of the by-columns, in order
key_of(r, by) == [i \in 1..Len(by) |-> r[by[i]].v]

\* a row whose key has a blank part belongs to no group (groupby dropna=True)
has_key(r, by) == \A i \in 1..Len(by) : ~isna(r[by[i]])

\* the order groupby sorts its keys in: tuples compared part by part
RECURSIVE key_less(_, _)
key_less(a, b) ==
  /\ a # <<>>
  /\ b # <<>>
  /\ \/ Head(a) < Head(b)
     \/ Head(a) = Head(b) /\ key_less(Tail(a), Tail(b))

\* add_to_groups with a row of a known group replacing the group's sum
add_to_groups_overwrite(groups, key, cell) ==
  LET d == IF isna(cell) THEN 0 ELSE cell.v
      n == Cardinality({i \in 1..Len(groups) : key_less(groups[i].key, key)})
  IN  IF \E i \in 1..Len(groups) : groups[i].key = key
        THEN [i \in 1..Len(groups) |->
                IF groups[i].key = key THEN [groups[i] EXCEPT !.Distance = d] ELSE groups[i]]
        ELSE SubSeq(groups, 1, n) \o <<[key |-> key, Distance |-> d]>>
               \o SubSeq(groups, n + 1, Len(groups))

\* add_to_groups with every row opening a group of its own
add_to_groups_always_new(groups, key, cell) ==
  LET d == IF isna(cell) THEN 0 ELSE cell.v
      n == Cardinality({i \in 1..Len(groups) : key_less(groups[i].key, key)})
  IN  SubSeq(groups, 1, n) \o <<[key |-> key, Distance |-> d]>>
        \o SubSeq(groups, n + 1, Len(groups))

\* one row enters the groups: added to its group, or a new group at its sorted
\* place; a blank distance adds nothing (sum skips NaN)
add_to_groups(groups, key, cell) ==
  LET d == IF isna(cell) THEN 0 ELSE cell.v
      before == {i \in 1..Len(groups) : key_less(groups[i].key, key)}
      n == Cardinality(before)
  IN  IF \E i \in 1..Len(groups) : groups[i].key = key
        THEN [i \in 1..Len(groups) |->
                IF groups[i].key = key
                  THEN [groups[i] EXCEPT !.Distance = @ + d]
                  ELSE groups[i]]
        ELSE SubSeq(groups, 1, n) \o <<[key |-> key, Distance |-> d]>>
               \o SubSeq(groups, n + 1, Len(groups))

RECURSIVE groupby_sum(_, _)
groupby_sum(rows, by) ==
  IF rows = <<>> THEN <<>>
  ELSE LET r == rows[Len(rows)]
           rest == groupby_sum(SubSeq(rows, 1, Len(rows) - 1), by)
       IN  IF has_key(r, by) THEN add_to_groups(rest, key_of(r, by), r.Distance) ELSE rest

-----------------------------------------------------------------------------
(* Ranking *)

remove_at(s, i) == SubSeq(s, 1, i - 1) \o SubSeq(s, i + 1, Len(s))

\* sort_values that leaves the frame in the order groupby gave it
sort_values_unsorted(s) == {s}

\* sort_values(by='Distance', ascending=False) with the default kind, quicksort,
\* which is not stable: every order that is descending by Distance is a result
RECURSIVE sort_values(_)
sort_values(s) ==
  IF s = <<>> THEN {<<>>}
  ELSE LET top == {i \in 1..Len(s) : \A j \in 1..Len(s) : s[i].Distance >= s[j].Distance}
       IN  UNION {{<<s[i]>> \o t : t \in sort_values(remove_at(s, i))} : i \in top}

\* the one-character medal strings, first, second and third place
medals == <<"gold", "silver", "bronze">>

\* with_pos that labels the ranks after the medals with str(i) for str(i+1)
with_pos_from_zero(stats) ==
  [n \in 1..Len(stats) |->
     [key |-> stats[n].key, Distance |-> stats[n].Distance,
      Pos |-> IF n - 1 < 3 THEN <<medals[n]>> ELSE str(n - 1)]]

\* for i in range(len(stats)): stats.loc[i, 'Pos'] = medals[i] if i < 3 else str(i+1)
with_pos(stats) ==
  [n \in 1..Len(stats) |->
     [key |-> stats[n].key, Distance |-> stats[n].Distance,
      Pos |-> IF n - 1 < 3 THEN <<medals[n]>> ELSE str(n)]]

\* DataFrame.head(n)
head(s, n) == SubSeq(s, 1, IF Len(s) < n THEN Len(s) ELSE n)

-----------------------------------------------------------------------------
(* Team rosters *)

\* app.py: the hardcoded team_member_map (Team A..G, three runners each)
static_team_member_map ==
  [t \in 1..7 |->
     CASE t = 1 -> <<6, 8, 9>>
       [] t = 2 -> <<2, 3, 15>>
       [] t = 3 -> <<5, 17, 21>>
       [] t = 4 -> <<7, 11, 13>>
       [] t = 5 -> <<10, 16, 20>>
       [] t = 6 -> <<1, 4, 14>>
       [] t = 7 -> <<12, 18, 19>>]

in_list(x, list) == \E i \in 1..Len(list) : list[i] = x

\* add_member without the test that the runner is not yet in the list
add_member_unchecked(map, team, runner) ==
  LET known == \E i \in 1..Len(map) : map[i].Team = team
      m1 == IF known THEN map ELSE Append(map, [Team |-> team, members |-> <<>>])
  IN  [i \in 1..Len(m1) |->
         IF m1[i].Team = team THEN [m1[i] EXCEPT !.members = Append(@, runner)] ELSE m1[i]]

\* one row of the scan of pages/current_leaderboard.py: a new team gets an
\* empty list, a runner not yet in the team's list is appended to it
add_member(map, team, runner) ==
  LET known == \E i \in 1..Len(map) : map[i].Team = team
      m1 == IF known THEN map ELSE Append(map, [Team |-> team, members |-> <<>>])
  IN  [i \in 1..Len(m1) |->
         IF m1[i].Team = team /\ ~in_list(runner, m1[i].members)
           THEN [m1[i] EXCEPT !.members = Append(@, runner)]
           ELSE m1[i]]

\* for _, row in df.iterrows(): ... (the dict keeps its insertion order)
RECURSIVE team_member_map(_)
team_member_map(rows) ==
  IF rows = <<>> THEN <<>>
  ELSE add_member(team_member_map(SubSeq(rows, 1, Len(rows) - 1)),
                  rows[Len(rows)].Team.v, rows[Len(rows)].Runner.v)

\* team_member_map.get(team, []) on the dynamic map
get_members(map, team) ==
  IF \E i \in 1..Len(map) : map[i].Team = team
    THEN map[CHOOSE i \in 1..Len(map) : map[i].Team = team].members
    ELSE <<>>

\* team_member_map.get(team, []) on the hardcoded map
get_static_members(team) ==
  IF team \in DOMAIN static_team_member_map THEN static_team_member_map[team] ELSE <<>>

\* ", ".join(members): the names with a separator (0) between neighbours
RECURSIVE join(_)
join(members) ==
  IF Len(members) <= 1 THEN members
  ELSE <<Head(members), 0>> \o join(Tail(members))

-----------------------------------------------------------------------------
(* Statistics and periods *)

RECURSIVE sum_distance(_)
sum_distance(rows) ==
  IF rows = <<>> THEN 0
  ELSE sum_distance(Tail(rows)) + (IF isna(Head(rows).Distance) THEN 0 ELSE Head(rows).Distance.v)

\* Series.nunique()
nunique(rows, col) == Cardinality({rows[i][col].v : i \in 1..Len(rows)})

\* the four metrics of display_statistics_2x2 and of the Period Stats tab, as
\* displayed: distances with one decimal
statistics(rows) ==
  <<[total_distance |-> round1(sum_distance(rows)),
     total_runs |-> Len(rows),
     avg_distance |-> round_div(sum_distance(rows), 10 * Len(rows)),
     active_runners |-> nunique(rows, "Runner")]>>

\* Series.unique(): the values in order of first appearance
RECURSIVE unique(_, _)
unique(rows, col) ==
  IF rows = <<>> THEN <<>>
  ELSE LET seen == unique(SubSeq(rows, 1, Len(rows) - 1), col)
           x == rows[Len(rows)][col].v
       IN  IF in_list(x, seen) THEN seen ELSE Append(seen, x)

\* sorted(values) without reverse=True
RECURSIVE sorted_ascending(_)
sorted_ascending(values) ==
  IF values = <<>> THEN <<>>
  ELSE LET rest == sorted_ascending(SubSeq(values, 1, Len(values) - 1))
           x == values[Len(values)]
           n == Cardinality({i \in 1..Len(rest) : rest[i] <= x})
       IN  SubSeq(rest, 1, n) \o <<x>> \o SubSeq(rest, n + 1, Len(rest))

\* sorted(values, reverse=True)
RECURSIVE sorted_reverse(_)
sorted_reverse(values) ==
  IF values = <<>> THEN <<>>
  ELSE LET rest == sorted_reverse(SubSeq(values, 1, Len(values) - 1))
           x == values[Len(values)]
           n == Cardinality({i \in 1..Len(rest) : rest[i] >= x})
       IN  SubSeq(rest, 1, n) \o <<x>> \o SubSeq(rest, n + 1, Len(rest))

\* pages/archive.py get_available_periods
get_available_periods(df) ==
  IF empty(df) \/ "Period" \notin df.cols THEN <<>>
  ELSE sorted_reverse(unique(df.rows, "Period"))

\* the frame without the filter on the period
period_rows_all(rows, period) == rows

\* archived_data[archived_data['Period'] == period]
period_rows(rows, period) ==
  LET in_period(r) == ~isna(r.Period) /\ r.Period.v = period
  IN  SelectSeq(rows, in_period)

\* the loop that builds summary_data: one row per period with records
RECURSIVE summary_rows(_, _)
summary_rows(rows, periods) ==
  IF periods = <<>> THEN <<>>
  ELSE LET period_df == period_rows(rows, Head(periods))
           row == [Period |-> Head(periods),
                   Teams |-> nunique(period_df, "Team"),
                   Participants |-> nunique(period_df, "Runner"),
                   TotalRuns |-> Len(period_df),
                   TotalDistance |-> round1(sum_distance(period_df)),
                   AverageDistance |-> round_div(sum_distance(period_df), 10 * Len(period_df))]
       IN  (IF period_df # <<>> THEN <<row>> ELSE <<>>)
             \o summary_rows(rows, Tail(periods))

-----------------------------------------------------------------------------
(* The st.cache_data cache and what a script run leaves on the screen *)

Loaders == {"app", "current", "archive"}

NoEntry == [hit |-> FALSE, error |-> FALSE, df |-> EmptyDataFrame]

\* a clear() that leaves every cached result where it is
NoCacheKept == cache

\* st.cache_data.clear()
NoCache == [f \in Loaders |-> NoEntry]

\* the options of the team radio; the first is the one a fresh session shows
TeamViews == <<"Table", "Bar Chart", "Contribution">>

\* an empty place of the page where the contribution view goes
NoContribution == [team |-> 0, outcome |-> "none", chart |-> <<>>, table |-> <<>>]

NoView ==
  [page |-> "none", status |-> "none", msgs |-> {}, df |-> EmptyDataFrame,
   team_member_map |-> <<>>, team_stats |-> <<>>, individual_sorted |-> <<>>,
   individual_stats |-> <<>>, table |-> <<>>, chart |-> <<>>, stats |-> <<>>, available_periods |-> <<>>,
   selected_period |-> <<>>, default_period |-> <<>>, total_entries |-> 0,
   summary_shown |-> FALSE, summary_data |-> <<>>,
   team_view |-> "none", contribution |-> NoContribution]

\* nothing run yet, no refresh and no failed read waiting
NoHist ==
  [page |-> "none", clicked |-> FALSE, fetched |-> FALSE, before |-> NoEntry,
   after_refresh |-> "none", after_failure |-> FALSE, edited |-> FALSE,
   refreshed |-> "none", failed |-> [f \in Loaders |-> FALSE]]

\* a call that runs the loader whether or not a result is cached
call_rereads(f, fresh) == fresh

\* a call of a cached loader: the cached result (its st.error is replayed), or
\* the result of running the loader now
call(f, fresh) ==
  IF cache[f].hit
    THEN [raised |-> FALSE, error |-> cache[f].error, df |-> cache[f].df]
    ELSE fresh

\* the cache after the call: a returned result is stored, a raised exception is not
stored(f, res) ==
  IF res.raised THEN cache
  ELSE [cache EXCEPT ![f] = [hit |-> TRUE, error |-> res.error, df |-> res.df]]

\* team_stats["TeamDisplay"] = team_stats["Team"].apply(team_with_members), app.py
app_team_with_members(stats) ==
  [n \in 1..Len(stats) |->
     [key |-> stats[n].key, Distance |-> stats[n].Distance, Pos |-> stats[n].Pos,
      TeamDisplay |-> join(get_static_members(stats[n].key[1]))]]

\* the same column on pages/current_leaderboard.py, from the dynamic map
team_with_members(stats, map) ==
  [n \in 1..Len(stats) |->
     [key |-> stats[n].key, Distance |-> stats[n].Distance, Pos |-> stats[n].Pos,
      TeamDisplay |-> join(get_members(map, stats[n].key[1]))]]

\* df[df['Team'] == selected_team].groupby('Runner')['Distance'].sum()
member_contrib(rows, selected_team) ==
  LET of_team(r) == ~isna(r.Team) /\ r.Team.v = selected_team
  IN  groupby_sum(SelectSeq(rows, of_team), <<"Runner">>)

\* px.sunburst(values='Distance', color='Distance') and st.plotly_chart: the
\* colour of a sector is the average weighted by the values, which plotly
\* versions compute for a sector of weight zero or raise on; a frame without
\* rows gives a chart without sectors or raises
sunburst(contrib) ==
  IF contrib = <<>> THEN {"empty chart", "exception"}
  ELSE IF \E i \in 1..Len(contrib) : contrib[i].Distance = 0 THEN {"chart", "exception"}
  ELSE {"chart"}

\* member_contrib_sorted['Rank'] = range(1, len(member_contrib_sorted) + 1)
with_rank(stats) ==
  [n \in 1..Len(stats) |-> [key |-> stats[n].key, Distance |-> stats[n].Distance, Rank |-> n]]

\* the Contribution branch of app.py: the chart is drawn whatever the frame holds
app_contribution(rows, selected_team) ==
  LET contrib == member_contrib(rows, selected_team)
  IN  {[team |-> selected_team, outcome |-> o,
        chart |-> IF o = "exception" THEN <<>> ELSE contrib, table |-> <<>>] :
         o \in sunburst(contrib)}

\* the Contribution branch of pages/current_leaderboard.py: chart and ranked
\* table when the team has rows, a warning when it has none
contribution(rows, selected_team) ==
  LET contrib == member_contrib(rows, selected_team)
  IN  IF contrib # <<>>
        THEN {[team |-> selected_team, outcome |-> o,
               chart |-> IF o = "exception" THEN <<>> ELSE contrib,
               table |-> IF o = "exception" THEN <<>> ELSE with_rank(t)] :
                o \in sunburst(contrib), t \in sort_values(contrib)}
        ELSE {[team |-> selected_team, outcome |-> "warning: No data found",
               chart |-> <<>>, table |-> <<>>]}

\* list(team_member_map.keys()), the options of the team selectbox
team_list(map) == [i \in 1..Len(map) |-> map[i].Team]
app_team_list == [t \in 1..7 |-> t]

\* app.py, one script run; clicked: the Refresh Data button was pressed;
\* team_view: the radio; selected_team: the selectbox of the Contribution view
RunApp(clicked, team_view, selected_team) ==
  LET res == call("app", app_load_data(source))
  IN  IF res.raised
        THEN /\ view' = [NoView EXCEPT !.page = "app", !.status = "crashed",
                                       !.msgs = {"exception"}]
             /\ UNCHANGED <<source, cache>>
        ELSE \E team_sorted \in sort_values(groupby_sum(res.df.rows, <<"Team">>)),
                runner_sorted \in sort_values(groupby_sum(res.df.rows, <<"Runner">>)),
                contrib \in IF team_view = "Contribution"
                              THEN app_contribution(res.df.rows, selected_team)
                              ELSE {NoContribution} :
               LET runner_stats == with_pos(head(runner_sorted, 10))
                   drawn == contrib.outcome # "exception"
               IN  /\ view' = [NoView EXCEPT
                                 !.page = "app",
                                 !.status = IF drawn THEN "ok" ELSE "crashed",
                                 !.msgs = IF drawn THEN {} ELSE {"exception"},
                                 !.df = res.df,
                                 !.team_view = team_view,
                                 !.team_stats = app_team_with_members(with_pos(team_sorted)),
                                 !.contribution = contrib,
                                 !.individual_sorted = IF drawn THEN runner_sorted ELSE <<>>,
                                 !.individual_stats = IF drawn THEN runner_stats ELSE <<>>,
                                 !.table = IF drawn THEN runner_stats ELSE <<>>,
                                 !.chart = IF drawn THEN runner_stats ELSE <<>>]
                   /\ cache' = IF clicked THEN NoCache ELSE stored("app", res)
                   /\ UNCHANGED source

\* pages/current_leaderboard.py, one script run
RunCurrent(clicked, team_view, selected_team) ==
  LET res == call("current", load_data(source))
      shown == IF res.error THEN {"error: Failed to load data"} ELSE {}
  IN  IF empty(res.df)
        THEN /\ view' = [NoView EXCEPT
                           !.page = "current", !.status = "stopped",
                           !.msgs = shown \cup {"warning: No data available"}]
             /\ cache' = stored("current", res)
             /\ UNCHANGED source
        ELSE \E team_sorted \in sort_values(groupby_sum(res.df.rows, <<"Team">>)),
                individual_sorted \in
                  sort_values(groupby_sum(res.df.rows, <<"Runner", "Team">>)),
                contrib \in IF team_view = "Contribution"
                              THEN contribution(res.df.rows, selected_team)
                              ELSE {NoContribution} :
               LET map == team_member_map(res.df.rows)
                   individual_stats == with_pos(individual_sorted)
                   drawn == contrib.outcome # "exception"
               IN  /\ team_view = "Contribution" => in_list(selected_team, team_list(map))
                   /\ view' = [NoView EXCEPT
                                 !.page = "current",
                                 !.status = IF drawn THEN "ok" ELSE "crashed",
                                 !.msgs = IF drawn THEN shown ELSE shown \cup {"exception"},
                                 !.df = res.df,
                                 !.team_view = team_view,
                                 !.stats = statistics(res.df.rows),
                                 !.team_member_map = map,
                                 !.team_stats = team_with_members(with_pos(team_sorted), map),
                                 !.contribution = contrib,
                                 !.individual_sorted = IF drawn THEN individual_sorted ELSE <<>>,
                                 !.individual_stats = IF drawn THEN individual_stats ELSE <<>>,
                                 !.table = IF drawn THEN head(individual_stats, 20) ELSE <<>>,
                                 !.chart = IF drawn THEN head(individual_stats, 10) ELSE <<>>]
                   /\ cache' = IF clicked THEN NoCache ELSE stored("current", res)
                   /\ UNCHANGED source

\* the default of the period selectbox: index=0
default_period(available_periods) == available_periods[1]

\* pages/archive.py, one script run; summary: the Show Summary button was pressed
RunArchive(summary) ==
  LET res == call("archive", load_archived_data(source))
      shown == IF res.error THEN {"error: Failed to load archived data"} ELSE {}
      available_periods == get_available_periods(res.df)
  IN  /\ cache' = stored("archive", res)
      /\ UNCHANGED source
      /\ IF empty(res.df)
           THEN view' = [NoView EXCEPT
                           !.page = "archive", !.status = "stopped",
                           !.msgs = shown \cup {"warning: No archived data available"}]
           ELSE IF available_periods = <<>>
             THEN view' = [NoView EXCEPT
                             !.page = "archive", !.status = "stopped", !.df = res.df,
                             !.msgs = shown \cup {"warning: No periods found"}]
             ELSE \E p \in 1..Len(available_periods) :
                    LET selected_period == available_periods[p]
                        period_data == period_rows(res.df.rows, selected_period)
                        header == [NoView EXCEPT
                                     !.page = "archive", !.status = "ok", !.msgs = shown,
                                     !.df = res.df,
                                     !.available_periods = available_periods,
                                     !.default_period = <<default_period(available_periods)>>,
                                     !.selected_period = <<selected_period>>,
                                     !.total_entries = Len(res.df.rows)]
                    IN  IF selected_period = 0
                          THEN view' = header
                          ELSE
                        \E team_sorted \in sort_values(groupby_sum(period_data, <<"Team">>)),
                           individual_sorted \in
                             sort_values(groupby_sum(period_data, <<"Runner", "Team">>)) :
                          LET team_stats == with_pos(team_sorted)
                              individual_stats == with_pos(individual_sorted)
                          IN  view' = [header EXCEPT
                                !.team_stats = team_stats,
                                !.individual_sorted = individual_sorted,
                                !.individual_stats = individual_stats,
                                !.table = individual_stats,
                                !.chart = head(individual_stats, 10),
                                !.stats = statistics(period_data),
                                !.summary_shown = summary,
                                !.summary_data =
                                  IF summary THEN summary_rows(res.df.rows, available_periods)
                                  ELSE <<>>]

\* the time-to-live of one loader's cached result runs out
Expire(f) ==
  /\ cache[f].hit
  /\ cache' = [cache EXCEPT ![f] = NoEntry]
  /\ UNCHANGED <<source, view>>

\* the leaderboards with the radio as a fresh session shows it
Next ==
  \/ \E clicked \in BOOLEAN : RunApp(clicked, TeamViews[1], 0) /\ UNCHANGED hist
  \/ \E clicked \in BOOLEAN : RunCurrent(clicked, TeamViews[1], 0) /\ UNCHANGED hist
  \/ \E summary \in BOOLEAN : RunArchive(summary) /\ UNCHANGED hist
  \/ \E f \in Loaders : Expire(f) /\ UNCHANGED hist

\* the sheet is edited, or the service behind conn.read() goes down or comes back
Edit(sheet) ==
  /\ sheet # source
  /\ source' = sheet
  /\ UNCHANGED <<cache, view>>

\* what a call of loader f returns in this state
returned(f) ==
  CASE f = "app" -> call("app", app_load_data(source))
    [] f = "current" -> call("current", load_data(source))
    [] f = "archive" -> call("archive", load_archived_data(source))

\* the run of page f reaches its Refresh Data button: app.py when load_data
\* did not raise, the current page when it did not stop; the archive page has none
button_shown(f) ==
  CASE f = "app" -> ~returned(f).raised
    [] f = "current" -> ~empty(returned(f).df)
    [] f = "archive" -> FALSE

\* the history after a run of page f: whether the loader read the sheet, the
\* cache entry it found, whether its call is the first after a refresh and
\* whether it follows a failed read of f that nothing has invalidated; edited:
\* the sheet has changed since the run
Observed(f, clicked) ==
  LET fetched == ~cache[f].hit
      pressed == clicked /\ button_shown(f)
  IN  [page |-> f, clicked |-> pressed, fetched |-> fetched, before |-> cache[f],
       after_refresh |-> hist.refreshed, after_failure |-> hist.failed[f],
       edited |-> FALSE,
       refreshed |-> IF pressed THEN f ELSE "none",
       failed |-> IF pressed THEN [g \in Loaders |-> FALSE]
                  ELSE IF fetched THEN [hist.failed EXCEPT ![f] = ~source.up]
                  ELSE hist.failed]

-----------------------------------------------------------------------------
(* The sheets the runs start from *)

Blank == [k |-> "nan", v |-> 0]
BlankText == [k |-> "nan", v |-> <<>>]
Unparseable == [k |-> "text", v |-> 0]

Sheets(rowset, n) == UNION {[1..k -> rowset] : k \in 0..n}

Sheet(up, cols, rows) == [up |-> up, cols |-> cols, rows |-> rows]

\* Loader family: one runner of one team; the distance and the date parse or
\* not, the period is set or blank, the Archive column is there or not
LoadRows(archive_cells) ==
  {[Runner |-> Val(6), Team |-> Val(1), Distance |-> d, Date |-> t, Period |-> p,
    Archive |-> a] :
     d \in {Val(1504), Unparseable}, t \in {Val(3), Unparseable},
     p \in {Val(1), Blank}, a \in archive_cells}

LoadFamily ==
  {Sheet(TRUE, Columns, r) :
     r \in Sheets(LoadRows({Val(<<" ", "y">>), Val(<<"f", "a", "l", "s", "e">>)}), MaxRows)}
  \cup {Sheet(TRUE, Columns \ {"Archive"}, r) : r \in Sheets(LoadRows({BlankText}), MaxRows)}
  \cup {Sheet(FALSE, Columns, r) :
          r \in Sheets(LoadRows({Val(<<" ", "y">>), Val(<<"f", "a", "l", "s", "e">>)}), 1)}

\* Aggregation family: complete rows of Asim in Team A and of Alfred in Team A
\* or Team B, current or archived
AggRows ==
  {[Runner |-> Val(rt[1]), Team |-> Val(rt[2]), Distance |-> Val(d), Date |-> Val(3),
    Period |-> Val(1), Archive |-> Val(a)] :
     rt \in {<<6, 1>>, <<2, 1>>, <<2, 2>>}, d \in {1000, 2000},
     a \in {<<"T", "R", "U", "E">>, <<"f", "a", "l", "s", "e">>}}

AggFamily == {Sheet(TRUE, Columns, r) : r \in Sheets(AggRows, MaxAggRows)}

\* Roster family: the same runners and teams with one distance; of the
\* archived rows, those of Alfred
RosterRows ==
  {r \in AggRows :
     /\ r.Distance = Val(1000)
     /\ r.Archive = Val(<<"T", "R", "U", "E">>) => r.Runner = Val(2)}

RosterFamily == {Sheet(TRUE, Columns, r) : r \in Sheets(RosterRows, MaxRosterRows)}

\* Ranking family: n rows, runner i in team ((i-1) mod 7)+1, all current or
\* all archived, distances ascending, descending, or tied on the first two rows
LongDistance(i, n, pattern) ==
  CASE pattern = "ascending" -> 1000 * i
    [] pattern = "descending" -> 1000 * (n + 1 - i)
    [] pattern = "tie" -> IF i <= 2 THEN 1000 * (n + 1) ELSE 1000 * i

LongFamily ==
  {Sheet(TRUE, Columns,
         [i \in 1..n |->
            [Runner |-> Val(i), Team |-> Val(((i - 1) % 7) + 1),
             Distance |-> Val(LongDistance(i, n, pattern)), Date |-> Val(3),
             Period |-> Val(1), Archive |-> Val(a)]]) :
     n \in 0..MaxLong, pattern \in {"ascending", "descending", "tie"},
     a \in {<<"1">>, <<"0">>}}

\* Token family: one complete row whose Archive cell is blank or any token
NamedTokens ==
  {<<"t", "r", "u", "e">>, <<"T", "R", "U", "E">>, <<" ", "T", " ">>, <<"1">>,
   <<"y", "e", "s">>, <<" ", "Y">>, <<"f", "a", "l", "s", "e">>, <<"0">>, <<>>}

FreeTokens == UNION {[1..k -> {" ", "t", "Y", "1", "0"}] : k \in 0..MaxTokLen}

TokenRow(a) ==
  [Runner |-> Val(6), Team |-> Val(1), Distance |-> Val(1504), Date |-> Val(3),
   Period |-> Val(1), Archive |-> a]

TokenFamily ==
  {Sheet(TRUE, Columns, <<TokenRow(a)>>) :
     a \in {BlankText} \cup {Val(t) : t \in NamedTokens \cup FreeTokens}}
  \cup {Sheet(TRUE, Columns \ {"Archive"}, <<TokenRow(BlankText)>>)}

\* Caching family: n runs, all current or all archived, run i by runner i of
\* team i over i km; or the service is down
CacheFamily ==
  {Sheet(TRUE, Columns,
         [i \in 1..n |->
            [Runner |-> Val(i), Team |-> Val(i), Distance |-> Val(1000 * i),
             Date |-> Val(3), Period |-> Val(1), Archive |-> Val(a)]]) :
     n \in 0..MaxCacheRows, a \in {<<"T", "R", "U", "E">>, <<"f", "a", "l", "s", "e">>}}
  \cup {Sheet(FALSE, Columns, <<>>)}

\* the teams drawn for the selectbox: with runs in the family, and without
SomeTeams == {1, 7}

Start == cache = [f \in Loaders |-> NoEntry] /\ view = NoView /\ hist = NoHist

Init == source \in LoadFamily /\ Start
InitAgg == source \in AggFamily /\ Start
InitRoster == source \in RosterFamily /\ Start
InitRank == source \in LongFamily /\ Start
InitToken == source \in TokenFamily /\ Start

Spec == Init /\ [][Next]_vars
SpecAgg == InitAgg /\ [][Next]_vars
SpecRoster == InitRoster /\ [][Next]_vars
SpecRank == InitRank /\ [][Next]_vars
SpecToken == InitToken /\ [][Next]_vars

\* the pages with every choice of the radio and the selectbox, over a sheet
\* that changes between the runs, with the history recorded
NextCache ==
  \/ \E clicked \in BOOLEAN, v \in 1..Len(TeamViews) :
       \E t \in IF TeamViews[v] = "Contribution" THEN SomeTeams ELSE {0} :
         RunApp(clicked, TeamViews[v], t) /\ hist' = Observed("app", clicked)
  \/ \E clicked \in BOOLEAN, v \in 1..Len(TeamViews) :
       \E t \in IF TeamViews[v] = "Contribution" THEN SomeTeams ELSE {0} :
         RunCurrent(clicked, TeamViews[v], t) /\ hist' = Observed("current", clicked)
  \/ \E summary \in BOOLEAN : RunArchive(summary) /\ hist' = Observed("archive", FALSE)
  \/ \E f \in Loaders : Expire(f) /\ hist' = [hist EXCEPT !.failed[f] = FALSE]
  \/ \E sheet \in CacheFamily : Edit(sheet) /\ hist' = [hist EXCEPT !.edited = TRUE]

\* the same runs of the pages over a sheet that stays as it is
NextViews ==
  \/ \E clicked \in BOOLEAN, v \in 1..Len(TeamViews) :
       \E t \in IF TeamViews[v] = "Contribution" THEN SomeTeams ELSE {0} :
         RunApp(clicked, TeamViews[v], t) /\ UNCHANGED hist
  \/ \E clicked \in BOOLEAN, v \in 1..Len(TeamViews) :
       \E t \in IF TeamViews[v] = "Contribution" THEN SomeTeams ELSE {0} :
         RunCurrent(clicked, TeamViews[v], t) /\ UNCHANGED hist
  \/ \E summary \in BOOLEAN : RunArchive(summary) /\ UNCHANGED hist
  \/ \E f \in Loaders : Expire(f) /\ UNCHANGED hist

\* No-data family: runs of Asim in Team A over 0 km or 10 km, current or
\* archived, on a sheet with or without a Period column
ViewRows(periods) ==
  {[Runner |-> Val(6), Team |-> Val(1), Distance |-> Val(d), Date |-> Val(3),
    Period |-> p, Archive |-> Val(a)] :
     d \in {0, 10000}, p \in periods,
     a \in {<<"T", "R", "U", "E">>, <<"f", "a", "l", "s", "e">>}}

ViewFamily ==
  {Sheet(TRUE, Columns, r) : r \in Sheets(ViewRows({Val(1)}), MaxViewRows)}
  \cup {Sheet(TRUE, Columns \ {"Period"}, r) : r \in Sheets(ViewRows({Blank}), 1)}

\* Period family: archived runs of Asim in periods 0, 1 and 2 and a current
\* run in period 2; a sheet without Period column, one without Archive column
PeriodRows ==
  {[Runner |-> Val(6), Team |-> Val(1), Distance |-> Val(1000), Date |-> Val(3),
    Period |-> Val(p), Archive |-> Val(<<"T", "R", "U", "E">>)] : p \in {0, 1, 2}}
  \cup {[Runner |-> Val(6), Team |-> Val(1), Distance |-> Val(1000), Date |-> Val(3),
          Period |-> Val(2), Archive |-> Val(<<"f", "a", "l", "s", "e">>)]}

PeriodFamily ==
  {Sheet(TRUE, Columns, r) : r \in Sheets(PeriodRows, MaxPeriodRows)}
  \cup {Sheet(TRUE, Columns \ {"Period"},
               <<[Runner |-> Val(6), Team |-> Val(1), Distance |-> Val(1000),
                  Date |-> Val(3), Period |-> Blank,
                  Archive |-> Val(<<"T", "R", "U", "E">>)]>>),
         Sheet(TRUE, Columns \ {"Archive"},
               <<[Runner |-> Val(6), Team |-> Val(1), Distance |-> Val(1000),
                  Date |-> Val(3), Period |-> Val(1), Archive |-> BlankText]>>)}

InitPeriods == source \in PeriodFamily /\ Start
SpecPeriods == InitPeriods /\ [][Next]_vars

InitViews == source \in ViewFamily /\ Start
SpecViews == InitViews /\ [][NextViews]_vars

InitCache == source \in CacheFamily /\ Start
SpecCache == InitCache /\ [][NextCache]_vars

-----------------------------------------------------------------------------
(* Vocabulary of the properties *)

\* the sheet row with index label i, and where a loaded frame holds it
Raw(i) == source.rows[i]
InFrame(df, i) == \E j \in 1..Len(df.rows) : df.rows[j].idx = i

\* a normalized record: its distance and its date parse
Parseable(i) == Raw(i).Distance.k = "val" /\ Raw(i).Date.k = "val"

\* the archive flag of a record as the specification reads it: the text of
\* the field, upper-cased and trimmed, is a truthy token; no field, no flag
Truthy == {<<"T", "R", "U", "E">>, <<"T">>, <<"1">>, <<"Y", "E", "S">>, <<"Y">>}
Flagged(i) ==
  /\ "Archive" \in source.cols
  /\ Raw(i).Archive.k = "val"
  /\ strip(upper(Raw(i).Archive.v)) \in Truthy

\* the CURRENT and the ARCHIVED set, once both pages have loaded the sheet
BothLoaded == source.up /\ cache["current"].hit /\ cache["archive"].hit
InCurrent(i) == InFrame(cache["current"].df, i)
InArchived(i) == InFrame(cache["archive"].df, i)

\* C1: every normalized record of the sheet is in exactly one of the CURRENT
\* set (load_data of the current page) and the ARCHIVED set
\* (load_archived_data), and it is in the ARCHIVED set exactly when its
\* archive flag is set, whatever its date and period.
C1_PartitionCover ==
  BothLoaded =>
    \A i \in 1..Len(source.rows) :
      Parseable(i) =>
        /\ InCurrent(i) # InArchived(i)
        /\ InArchived(i) <=> Flagged(i)

\* C2: a record is on the archive side exactly when its archive field,
\* upper-cased and trimmed, is one of TRUE, T, 1, YES, Y, and on the current
\* side otherwise (false, 0, empty, absent); the two pages agree on it.
C2_TokenClassification ==
  BothLoaded =>
    \A i \in 1..Len(source.rows) :
      (Parseable(i) /\ ~isna(Raw(i).Period)) =>
        /\ InArchived(i) <=> Flagged(i)
        /\ InCurrent(i) <=> ~Flagged(i)

\* what holds of the classification: with an Archive column in the sheet the
\* two pages classify every complete record by its token, and agree
C2_WithArchiveColumn ==
  (BothLoaded /\ "Archive" \in source.cols) => C2_TokenClassification

\* the records a page's leaderboards are computed from: the loaded frame, on
\* the archive page its rows of the selected period
BoardRows ==
  IF view.page = "archive"
    THEN LET in_selected(r) == <<r.Period.v>> = view.selected_period
         IN  SelectSeq(view.df.rows, in_selected)
    ELSE view.df.rows

RECURSIVE Total(_)
Total(stats) == IF stats = <<>> THEN 0 ELSE Head(stats).Distance + Total(Tail(stats))

RECURSIVE TotalOfRecords(_)
TotalOfRecords(rows) ==
  IF rows = <<>> THEN 0 ELSE Head(rows).Distance.v + TotalOfRecords(Tail(rows))

\* a loaded row without its index label
Body(r) ==
  [Runner |-> r.Runner, Team |-> r.Team, Distance |-> r.Distance, Date |-> r.Date,
   Period |-> r.Period, Archive |-> r.Archive]
Bodies(rows) == [j \in 1..Len(rows) |-> Body(rows[j])]

\* the sheet without its unparseable rows, and what a loader makes of a sheet
ParseableRow(r) == r.Distance.k = "val" /\ r.Date.k = "val"
SheetOfParseable == [source EXCEPT !.rows = SelectSeq(@, ParseableRow)]
Loaded(f, src) ==
  CASE f = "app" -> app_load_data(src)
    [] f = "current" -> load_data(src)
    [] f = "archive" -> load_archived_data(src)

\* C4: a row whose distance or date does not parse is dropped silently by
\* every loader: the run does not fail, the loader returns what it returns
\* for the sheet without such rows, and no such row is in the frame, the
\* sums or the record count of the page.
C4_BadRowsDropped ==
  source.up =>
    /\ view.status # "crashed"
    /\ \A f \in Loaders :
         cache[f].hit =>
           /\ \A j \in 1..Len(cache[f].df.rows) : Parseable(cache[f].df.rows[j].idx)
           /\ Bodies(cache[f].df.rows) = Bodies(Loaded(f, SheetOfParseable).df.rows)
    /\ view.status = "ok" =>
         /\ \A j \in 1..Len(view.df.rows) : Parseable(view.df.rows[j].idx)
         /\ Total(view.team_stats) = TotalOfRecords(BoardRows)
         /\ Total(view.individual_sorted) = TotalOfRecords(BoardRows)
         /\ view.page # "app" => view.stats[1].total_runs = Len(BoardRows)

\* what holds of the page loaders: C4 on the current and the archive page
C4_OnThePages == view.page # "app" /\ ~cache["app"].hit => C4_BadRowsDropped

\* C10: when the read of the data source fails no page crashes: the run
\* ends with an empty record set, a warning or an error on the screen and
\* no leaderboard.
C10_ReadFailureHandled ==
  (~source.up /\ view.page # "none") =>
    /\ view.status = "stopped"
    /\ empty(view.df)
    /\ view.msgs # {}
    /\ view.team_stats = <<>> /\ view.individual_stats = <<>>

\* what holds of the page loaders: C10 on the current and the archive page
C10_OnThePages == view.page # "app" => C10_ReadFailureHandled

\* the column(s) the individual leaderboard of the page groups by
IndividualBy == IF view.page = "app" THEN <<"Runner">> ELSE <<"Runner", "Team">>

\* the position in the record scan at which a key is first met
FirstSeen(rows, by, key) ==
  CHOOSE j \in 1..Len(rows) :
    /\ key_of(rows[j], by) = key
    /\ \A k \in 1..(j - 1) : key_of(rows[k], by) # key

Descending(stats) ==
  \A m, n \in 1..Len(stats) : m < n => stats[m].Distance >= stats[n].Distance

FirstSeenBreaksTies(stats, by) ==
  \A m, n \in 1..Len(stats) :
    (m < n /\ stats[m].Distance = stats[n].Distance) =>
      FirstSeen(BoardRows, by, stats[m].key) < FirstSeen(BoardRows, by, stats[n].key)

\* C3 as claimed: every leaderboard is in descending order of distance, and
\* of two keys with equal distances the one first met earlier in the record
\* scan is ranked above the other.
C3_FirstSeenTieBreak ==
  view.status = "ok" =>
    /\ Descending(view.team_stats) /\ Descending(view.individual_sorted)
    /\ FirstSeenBreaksTies(view.team_stats, <<"Team">>)
    /\ FirstSeenBreaksTies(view.individual_sorted, IndividualBy)

\* C3 as amended: every leaderboard (team, runner, runner and team) is in
\* descending order of aggregated distance; the order of tied keys is not
\* fixed.
C3_DescendingByDistance ==
  view.status = "ok" =>
    /\ Descending(view.team_stats)
    /\ Descending(view.individual_sorted)
    /\ Descending(view.individual_stats)

\* C3 witness: a team leaderboard of two teams with different keys' order and
\* a tie, the later-met team ranked first.
C3_TieShown ==
  /\ view.status = "ok"
  /\ Len(view.team_stats) = 2
  /\ view.team_stats[1].Distance = view.team_stats[2].Distance
  /\ FirstSeen(BoardRows, <<"Team">>, view.team_stats[1].key)
       > FirstSeen(BoardRows, <<"Team">>, view.team_stats[2].key)

\* C5: the per-team sums of a team leaderboard add up to the sum of the
\* distances of all records it was computed from; no row is left out or
\* collapsed with another.
C5_Conservation ==
  view.status = "ok" => Total(view.team_stats) = TotalOfRecords(BoardRows)

\* C5 witness: a leaderboard over two rows of the same runner, team and date.
C5_SameRunnerSameDate ==
  /\ view.status = "ok"
  /\ view.team_stats # <<>>
  /\ \E i, j \in 1..Len(BoardRows) :
       /\ i < j
       /\ BoardRows[i].Runner = BoardRows[j].Runner
       /\ BoardRows[i].Team = BoardRows[j].Team
       /\ BoardRows[i].Date = BoardRows[j].Date

KeysOnce(stats) == \A m, n \in 1..Len(stats) : stats[m].key = stats[n].key => m = n
KeySet(stats) == {stats[n].key : n \in 1..Len(stats)}
KeysOfRecords(by) == {key_of(BoardRows[j], by) : j \in 1..Len(BoardRows)}

\* C6: for each grouping the keys of the aggregate are the distinct keys of
\* the records it was computed from, each once; no other key (a team of the
\* static roster without records) appears.
C6_KeysAreTheRecordsKeys ==
  view.status = "ok" =>
    /\ KeysOnce(view.team_stats)
    /\ KeySet(view.team_stats) = KeysOfRecords(<<"Team">>)
    /\ KeysOnce(view.individual_sorted)
    /\ KeySet(view.individual_sorted) = KeysOfRecords(IndividualBy)

\* C6 witness: app.py, whose static roster names seven teams, over two
\* records of one team.
C6_OneTeamOfTheRoster ==
  /\ view.page = "app" /\ view.status = "ok"
  /\ Len(BoardRows) = 2
  /\ Len(view.team_stats) = 1
  /\ view.team_stats[1].key[1] \in DOMAIN static_team_member_map

\* C8: the roster of the current page lists each team once, each with a
\* duplicate-free list of runners; runner R is under team T exactly when a
\* record of the CURRENT set, whose archive flag is not set, has runner R
\* and team T; the runners of a team are in the order of their first record
\* under that team.
C8_Roster ==
  (view.page = "current" /\ view.status = "ok") =>
    LET map == view.team_member_map
        rows == view.df.rows
        Under(j, t, r) == rows[j].Team.v = t /\ rows[j].Runner.v = r
        First(t, r) ==
          CHOOSE j \in 1..Len(rows) : Under(j, t, r) /\ \A k \in 1..(j - 1) : ~Under(k, t, r)
    IN  /\ \A a, b \in 1..Len(map) : map[a].Team = map[b].Team => a = b
        /\ \A a \in 1..Len(map) :
             LET list == map[a].members
             IN  /\ \A m, n \in 1..Len(list) : list[m] = list[n] => m = n
                 /\ \A m \in 1..Len(list) :
                      \E j \in 1..Len(rows) :
                        Under(j, map[a].Team, list[m]) /\ ~Flagged(rows[j].idx)
                 /\ \A m, n \in 1..Len(list) :
                      m < n => First(map[a].Team, list[m]) < First(map[a].Team, list[n])
        /\ \A j \in 1..Len(rows) :
             \E a \in 1..Len(map) :
               map[a].Team = rows[j].Team.v /\ in_list(rows[j].Runner.v, map[a].members)

\* C8 witness: Asim then Alfred under Team A, in that order, while an
\* archived record names a team that is not in the roster.
C8_FirstSeenOrderShown ==
  /\ view.page = "current" /\ view.status = "ok"
  /\ view.team_member_map = <<[Team |-> 1, members |-> <<6, 2>>]>>
  /\ \E i \in 1..Len(source.rows) : Flagged(i) /\ Raw(i).Team.v = 2

\* C9: the member roster shown for a team that has records is the roster
\* observed in the records, not the static one.
C9_DynamicRosterShown ==
  (view.page \in {"app", "current"} /\ view.status = "ok") =>
    \A n \in 1..Len(view.team_stats) :
      view.team_stats[n].TeamDisplay =
        join(get_members(team_member_map(view.df.rows), view.team_stats[n].key[1]))

\* what holds: C9 on the current page
C9_OnTheCurrentPage == view.page = "current" => C9_DynamicRosterShown

\* the number a string of decimal digits reads as
DigitValue(c) ==
  CASE c = "0" -> 0 [] c = "1" -> 1 [] c = "2" -> 2 [] c = "3" -> 3 [] c = "4" -> 4
    [] c = "5" -> 5 [] c = "6" -> 6 [] c = "7" -> 7 [] c = "8" -> 8 [] c = "9" -> 9

RECURSIVE DecimalValue(_)
DecimalValue(digits) ==
  IF digits = <<>> THEN 0
  ELSE 10 * DecimalValue(SubSeq(digits, 1, Len(digits) - 1)) + DigitValue(digits[Len(digits)])

IsLabelOfRank(label, r) ==
  CASE r = 1 -> label = <<"gold">>
    [] r = 2 -> label = <<"silver">>
    [] r = 3 -> label = <<"bronze">>
    [] OTHER ->
         /\ label # <<>>
         /\ \A i \in 1..Len(label) :
              label[i] \in {"0", "1", "2", "3", "4", "5", "6", "7", "8", "9"}
         /\ label[1] # "0"
         /\ DecimalValue(label) = r

RankLabelled(stats) == \A n \in 1..Len(stats) : IsLabelOfRank(stats[n].Pos, n)

\* every entry shown carries the label of its rank in the full sorted list
LabelledByFullRank(shown) ==
  \A n \in 1..Len(shown) :
    \E r \in 1..Len(view.individual_sorted) :
      /\ view.individual_sorted[r].key = shown[n].key
      /\ IsLabelOfRank(shown[n].Pos, r)

\* C7: in every leaderboard the entry at rank 1, 2, 3 carries the gold,
\* silver, bronze medal and the entry at rank r >= 4 the decimal string of r,
\* ties included; an entry of a top-K view carries the label of its rank in
\* the full sorted list.
C7_PositionLabels ==
  view.status = "ok" =>
    /\ RankLabelled(view.team_stats)
    /\ RankLabelled(view.individual_stats)
    /\ KeysOnce(view.individual_sorted)
    /\ LabelledByFullRank(view.table)
    /\ LabelledByFullRank(view.chart)

\* C7 witness: 21 runners on the current page, the first two tied; the table
\* shows the top 20 and the chart the top 10.
C7_TopTwentyOfTwentyOne ==
  /\ view.page = "current" /\ view.status = "ok"
  /\ Len(view.individual_sorted) = 21
  /\ view.individual_sorted[1].Distance = view.individual_sorted[2].Distance
  /\ Len(view.table) = 20
  /\ Len(view.chart) = 10
  /\ Len(view.team_stats) = 7

-----------------------------------------------------------------------------
(* Caching *)

\* what loader f returns when it reads the sheet as it is now
Fresh(f) ==
  CASE f = "app" -> app_load_data(source)
    [] f = "current" -> load_data(source)
    [] f = "archive" -> load_archived_data(source)

\* the sheet is as the last run found it
AsRun == hist.page # "none" /\ ~hist.edited

ErrorShown ==
  \E m \in view.msgs : m \in {"error: Failed to load data", "error: Failed to load archived data"}

\* the last run put the loader result res on the screen: its records and its
\* error message, or the exception that left the loader
Displays(res) ==
  /\ view.page = hist.page
  /\ IF res.raised
       THEN view.status = "crashed" /\ view.team_view = "none"
       ELSE /\ view.df.rows = res.df.rows
            /\ view.page = "app" => view.team_view # "none"
            /\ ErrorShown <=> res.error

\* C11: the first loader call after a click on Refresh Data reads the sheet
\* and the run displays what that read returned, never a cached snapshot,
\* on whichever page the call happens and whatever the age of the snapshot
\* that was cached at the click.
C11_RefreshForcesFetch ==
  (AsRun /\ hist.after_refresh # "none") => hist.fetched /\ Displays(Fresh(hist.page))

\* a refresh on the current page, which showed current runs, and the next
\* call on the archive page, which reads the sheet and shows archived runs:
\* the sheet was edited in between
C11_RefreshThenArchivePage ==
  /\ AsRun
  /\ hist.after_refresh = "current"
  /\ hist.page = "archive"
  /\ hist.fetched
  /\ view.status = "ok"
  /\ view.df.rows # <<>>

\* the team board, the roster, the statistics, the contribution view and the
\* individual board on the screen are all computed from the one frame view.df
TeamBoardOf(rows) ==
  \E t \in sort_values(groupby_sum(rows, <<"Team">>)) :
    CASE view.page = "app" -> view.team_stats = app_team_with_members(with_pos(t))
      [] view.page = "current" ->
           view.team_stats = team_with_members(with_pos(t), team_member_map(rows))
      [] view.page = "archive" -> view.team_stats = with_pos(t)

IndividualBoardOf(rows) ==
  \/ view.status = "crashed" /\ view.individual_stats = <<>> /\ view.table = <<>>
  \/ /\ view.status = "ok"
     /\ view.individual_sorted \in
          sort_values(groupby_sum(rows, IF view.page = "app" THEN <<"Runner">>
                                        ELSE <<"Runner", "Team">>))
     /\ view.individual_stats =
          with_pos(IF view.page = "app" THEN head(view.individual_sorted, 10)
                   ELSE view.individual_sorted)
     /\ view.table = head(view.individual_stats, IF view.page = "current" THEN 20
                                                 ELSE Len(view.individual_stats))
     /\ view.chart = head(view.individual_stats, 10)

ContributionOf(rows) ==
  IF view.team_view = "Contribution"
    THEN view.contribution \in
           (IF view.page = "app" THEN app_contribution(rows, view.contribution.team)
            ELSE contribution(rows, view.contribution.team))
    ELSE view.contribution = NoContribution

\* if selected_period: the period 0 is selected and the page shows no board
NoPeriodShown == view.page = "archive" /\ view.selected_period = <<0>>

ViewsOfOneFrame ==
  IF NoPeriodShown
    THEN view.team_stats = <<>> /\ view.table = <<>> /\ view.stats = <<>>
  ELSE
  view.status \in {"ok", "crashed"} =>
    /\ TeamBoardOf(BoardRows)
    /\ IndividualBoardOf(BoardRows)
    /\ ContributionOf(BoardRows)
    /\ view.page = "current" =>
         view.stats = statistics(view.df.rows)
         /\ view.team_member_map = team_member_map(view.df.rows)
    /\ view.page = "archive" => view.stats = statistics(BoardRows)

\* C12: a run whose loader finds a cached snapshot (stored by an earlier call
\* and neither cleared by a refresh nor expired since) does not read the
\* sheet; it displays that snapshot, and the team board, the roster, the
\* contribution view, the individual board and the statistics of the run are
\* all computed from it, whatever the sheet holds by then.
C12_OneSnapshot ==
  (hist.page # "none" /\ hist.before.hit) =>
    /\ ~hist.fetched
    /\ Displays([raised |-> FALSE, error |-> hist.before.error, df |-> hist.before.df])
    /\ ViewsOfOneFrame

\* the contribution view of a run on the current page, drawn from the cached
\* snapshot although the sheet no longer holds the runs it shows
C12_SnapshotOutlivesTheSheet ==
  /\ AsRun
  /\ hist.page = "current"
  /\ hist.before.hit
  /\ view.status = "ok"
  /\ view.team_view = "Contribution"
  /\ view.contribution.chart # <<>>
  /\ Fresh("current").df.rows # view.df.rows

\* the run in which Refresh Data is clicked displays the snapshot that was
\* cached before the click without reading the sheet, and leaves no cached
\* result behind
ClickCycleShowsCached ==
  (hist.clicked /\ hist.before.hit) =>
    /\ ~hist.fetched
    /\ Displays([raised |-> FALSE, error |-> hist.before.error, df |-> hist.before.df])
    /\ \A f \in Loaders : ~cache[f].hit

\* a run that follows a failed read of its loader, with no refresh and no
\* expiry in between, displays the empty result of the failed read
FailedReadStays ==
  hist.after_failure =>
    /\ ~hist.fetched
    /\ view.status = "stopped"
    /\ view.df.rows = <<>>
    /\ ErrorShown

\* C16: the run in which Refresh Data is clicked displays the snapshot cached
\* before the click and clears the cache after its load, so that re-fetched
\* data first appear in the next run; likewise, after a failed read the
\* runs display the empty result of that read until a refresh or an expiry
\* is followed by a new read.
C16_RefreshOrdering ==
  /\ ClickCycleShowsCached
  /\ (AsRun /\ hist.after_refresh # "none") => hist.fetched
  /\ FailedReadStays

\* the same with the failed read on the two pages, whose loaders catch it
C16_OnThePages ==
  /\ ClickCycleShowsCached
  /\ (AsRun /\ hist.after_refresh # "none") => hist.fetched
  /\ hist.page \in {"current", "archive"} => FailedReadStays

\* a click on the current page that showed a snapshot the sheet no longer
\* agrees with, and a run of the archive page that replays a failed read
\* although the service is back
C16_StaleClickCycle ==
  /\ AsRun
  /\ hist.clicked
  /\ hist.before.hit
  /\ hist.page = "current"
  /\ Fresh("current").df.rows # view.df.rows

C16_FailedReadReplayed ==
  /\ AsRun
  /\ hist.page = "archive"
  /\ hist.after_failure
  /\ source.up
  /\ Fresh("archive").df.rows # <<>>

-----------------------------------------------------------------------------
(* No data *)

\* the page says that there is nothing to show
NoDataSignal ==
  \E m \in view.msgs :
    m \in {"warning: No data available", "warning: No archived data available",
           "warning: No periods found"}

\* the run's loader returned a frame without records
LoadedNothing ==
  /\ view.page # "none"
  /\ view.page = "app" => view.team_view # "none"
  /\ view.df.rows = <<>>

\* the run's Contribution view is of a team without records
TeamWithoutRecords ==
  /\ view.team_view = "Contribution"
  /\ member_contrib(view.df.rows, view.contribution.team) = <<>>

\* the records of the boards are there and their distances add up to zero
ZeroTotal ==
  /\ view.status \in {"ok", "crashed"}
  /\ view.team_view # "none" \/ view.page = "archive"
  /\ BoardRows # <<>>
  /\ sum_distance(BoardRows) = 0

\* C13: a page whose record set is empty, or whose archived records show no
\* period, or whose selected team has no records, says so and renders no
\* table or chart for it, app.py and its Contribution view included; records
\* whose distances add up to zero get no such message and are on the boards
\* as rows of distance zero.
C13_NoDataSignals ==
  /\ LoadedNothing => NoDataSignal /\ view.status = "stopped"
  /\ (view.page = "archive" /\ view.df.rows # <<>> /\ get_available_periods(view.df) = <<>>)
       => "warning: No periods found" \in view.msgs /\ view.status = "stopped"
  /\ TeamWithoutRecords =>
       view.contribution.outcome = "warning: No data found" /\ view.contribution.chart = <<>>
  /\ ZeroTotal =>
       /\ ~NoDataSignal
       /\ view.contribution.outcome # "warning: No data found"
       /\ view.team_stats # <<>>
       /\ \A n \in 1..Len(view.team_stats) : view.team_stats[n].Distance = 0

\* the same on pages/current_leaderboard.py and pages/archive.py alone
C13_OnThePages == view.page \in {"current", "archive"} => C13_NoDataSignals

-----------------------------------------------------------------------------
(* Periods *)

\* the period labels of the records of a frame
Labels(df) ==
  IF "Period" \in df.cols THEN {df.rows[i].Period.v : i \in 1..Len(df.rows)} ELSE {}

StrictlyDescending(periods) ==
  \A i, j \in 1..Len(periods) : i < j => periods[i] > periods[j]

\* C14: get_available_periods of the archived frame (what load_archived_data
\* returned) lists the period labels of its records and no other label,
\* each once, in strictly descending order; the list is empty when the
\* frame has no records or no Period column; the period selected by
\* default is the first of the list, the greatest label.
C14_AvailablePeriods ==
  view.page = "archive" =>
    LET periods == get_available_periods(view.df)
    IN  /\ {periods[i] : i \in 1..Len(periods)} = Labels(view.df)
        /\ StrictlyDescending(periods)
        /\ (empty(view.df) \/ "Period" \notin view.df.cols) => periods = <<>>
        /\ view.status = "ok" =>
             /\ view.available_periods = periods
             /\ view.default_period = <<periods[1]>>
             /\ \A q \in Labels(view.df) : periods[1] >= q

\* three archived runs, two of them of one period and the first of the
\* smaller period: two labels, the greater first
C14_TwoLabelsOfThreeRuns ==
  /\ view.page = "archive"
  /\ view.status = "ok"
  /\ Len(view.df.rows) = 3
  /\ Len(view.available_periods) = 2
  /\ view.df.rows[1].Period.v < view.df.rows[3].Period.v
  /\ view.default_period = <<view.df.rows[3].Period.v>>

RECURSIVE TotalRuns(_)
TotalRuns(summary) ==
  IF summary = <<>> THEN 0 ELSE Head(summary).TotalRuns + TotalRuns(Tail(summary))

\* C15: the roll-up across the periods has a row for a period exactly when
\* an archived record has that period; no row counts zero runs, no period
\* has two rows, the rows are in descending order of the period, and their
\* run counts add up to the number of archived entries the page reports.
C15_RollUp ==
  (view.page = "archive" /\ view.summary_shown) =>
    LET summary == view.summary_data
    IN  /\ {summary[n].Period : n \in 1..Len(summary)} = Labels(view.df)
        /\ \A n \in 1..Len(summary) :
             /\ summary[n].TotalRuns > 0
             /\ summary[n].TotalRuns =
                  Cardinality({i \in 1..Len(view.df.rows) :
                                 view.df.rows[i].Period.v = summary[n].Period})
        /\ \A m, n \in 1..Len(summary) : m < n => summary[m].Period > summary[n].Period
        /\ TotalRuns(summary) = view.total_entries
        /\ view.total_entries = Len(view.df.rows)

\* the roll-up of three archived runs in two periods: two rows, one of them
\* counting two runs
C15_TwoPeriodsThreeRuns ==
  /\ view.page = "archive"
  /\ view.summary_shown
  /\ view.total_entries = 3
  /\ Len(view.summary_data) = 2
  /\ \E n \in 1..2 : view.summary_data[n].TotalRuns = 2

====
